---- MODULE Spec2Model ----
(***************************************************************************)
(* Single-decree Paxos role state machines of paxos-state-machine:         *)
(* Proposer (proposer.rs), Acceptor (acceptor.rs), Learner (learner.rs).   *)
(*                                                                         *)
(* Each role is modelled by the handlers it exposes (on_init, on_message,  *)
(* on_timeout).  Five specifications drive them:                           *)
(*   Spec          the composed system: three nodes, every node hosting    *)
(*                 the three roles, a driver that delivers only messages   *)
(*                 that were sent, in any order, and timer expiries; a     *)
(*                 lost message is one that is never delivered;            *)
(*   SpecProposer  one Proposer fed every sequence of handler calls;       *)
(*   SpecAcceptor  one Acceptor fed every sequence of handler calls;       *)
(*   SpecLearner   one Learner fed every sequence of handler calls.        *)
(*   SpecRoles     the three roles of one node, each fed handler calls on  *)
(*                 its own (one message of every variant, any timer id).   *)
(*                                                                         *)
(* ProposalId: types.rs declares the pair (u64, NodeId), but proposer.rs   *)
(* builds and compares a bare u64 (next_id: 0, saturating_add(1),          *)
(* prepare_id: u64) and never puts a NodeId into it.  The identifiers the  *)
(* handlers exchange are therefore the bare counters, as the Proposer      *)
(* produces them.  u64 is modelled with a reduced width: 0..U64_MAX, with  *)
(* the saturating arithmetic of the code.                                  *)
(***************************************************************************)
EXTENDS Integers, Sequences, FiniteSets, TLC

\* ---------------------------------------------------------------- bounds
\* Largest value of the (reduced-width) u64 type.
U64_MAX == 2
\* Largest ProposalId of an Accepted given to the Learner in SpecLearner.
MaxLearnerPid == 0
\* Largest ProposalId of an accepted proposal reported in a Promise given to
\* the Proposer in SpecProposer.
MaxAcceptedId == 0
\* Largest number of timer expiries in a run of the composed system.
MaxTimeouts == 1
\* Largest number of nodes whose Proposer is started in the composed system.
MaxProposers == 2

\* ------------------------------------------------------- configuration
\* NodeContext.number_of_nodes (the three-node deployment of the scenarios).
number_of_nodes == 3
\* Proposer::new's timer_initial_duration_ms argument.
timer_initial_duration_ms == 1

Nodes == 0 .. (number_of_nodes - 1)
Values == {"x", "y"}
ProposalIds == 0 .. U64_MAX
\* The timer ids a driver hands to the roles of node n: the ids the Proposer of n
\* can hold, and one that belongs to another node.
TimerIds(n) == {<<k, n>> : k \in Nodes} \cup {<<n, (n + 1) % number_of_nodes>>}

\* Option<T>: None is the empty set, Some(x) the singleton {x}.
None == {}
Some(x) == {x}

\* quorum = number_of_nodes / 2 + 1 (learner.rs:16, proposer.rs:76, proposer.rs:99)
quorum == (number_of_nodes \div 2) + 1

\* u64::saturating_add / u64::saturating_mul
saturating_add(a, b) == IF a + b > U64_MAX THEN U64_MAX ELSE a + b
saturating_mul(a, b) == IF a * b > U64_MAX THEN U64_MAX ELSE a * b

\* ------------------------------------------------------------- messages
Proposal(id, value) == [id |-> id, value |-> value]
Prepare(proposal_id, from) ==
    [type |-> "Prepare", proposal_id |-> proposal_id, from |-> from]
Promise(accepted_proposal, proposal_response) ==
    [type |-> "Promise", accepted_proposal |-> accepted_proposal,
     proposal_response |-> proposal_response]
AcceptProposal(proposal_id, value) ==
    [type |-> "AcceptProposal", proposal_id |-> proposal_id, value |-> value]
Accepted(proposal) == [type |-> "Accepted", proposal |-> proposal]
Learn(proposal_id, value) ==
    [type |-> "Learn", proposal_id |-> proposal_id, value |-> value]

Proposals == {Proposal(i, v) : i \in ProposalIds, v \in Values}
OptProposals == {None} \cup {Some(p) : p \in Proposals}

\* Every message a driver can hand to a role.
Messages ==
    {Prepare(n, f) : n \in ProposalIds, f \in Nodes}
      \cup {Promise(a, n) : a \in OptProposals, n \in ProposalIds}
      \cup {AcceptProposal(n, v) : n \in ProposalIds, v \in Values}
      \cup {Accepted(p) : p \in Proposals}
      \cup {Learn(n, v) : n \in ProposalIds, v \in Values}

\* -------------------------------------------------------------- actions
Send(to, from, msg) == [act |-> "Send", to |-> to, from |-> from, msg |-> msg]
SetTimer(id, ms) == [act |-> "SetTimer", id |-> id, ms |-> ms]
ProposeValue(v) == [act |-> "ProposeValue", v |-> v]
ChoseValue(v) == [act |-> "ChoseValue", v |-> v]

\* All orders in which a HashSet's iterator may yield the elements of S.
Orderings(S) ==
    {s \in [1 .. Cardinality(S) -> S] : \A i, j \in DOMAIN s : s[i] = s[j] => i = j}

\* The iteration orders that matter for `msg`: only the AcceptProposal arm
\* iterates over the learners.
IterationOrders(S, msg) ==
    IF msg.type = "AcceptProposal" THEN Orderings(S) ELSE {<<>>}

\* ============================================================= Acceptor
\* Acceptor::new: nothing promised, nothing accepted; every node hosts a Learner.
Acceptor_new ==
    [latest_accepted_proposal |-> None, latest_promise |-> None]
learners == Nodes

\* Mutant of can_promise: every Prepare is promised.
can_promise_any(latest_promise, proposal_id) == TRUE

\* Mutant of can_promise: a Prepare equal to the latest promise is refused.
can_promise_strict(latest_promise, proposal_id) ==
    latest_promise = None \/ \A p \in latest_promise : proposal_id > p

\* acceptor.rs:54-56  latest_promise.map_or(true, |p| proposal_id >= p)
can_promise(latest_promise, proposal_id) ==
    latest_promise = None \/ \A p \in latest_promise : proposal_id >= p

\* Mutant of can_accept: every AcceptProposal is accepted.
can_accept_any(latest_promise, proposal_id) == TRUE

\* acceptor.rs:75-77  latest_promise.map_or(true, |p| proposal_id >= p)
can_accept(latest_promise, proposal_id) ==
    latest_promise = None \/ \A p \in latest_promise : proposal_id >= p

\* One Send per learner, in the order `order` the HashSet iterator yields them.
learners_broadcast(order, node_id, msg) ==
    [i \in 1 .. Len(order) |-> Send(order[i], node_id, msg)]

\* The Prepare arm of Acceptor::on_message.
Acceptor_on_prepare(st, node_id, msg) ==
    IF can_promise(st.latest_promise, msg.proposal_id)
    THEN [st |-> [st EXCEPT !.latest_promise = Some(msg.proposal_id)],
          out |-> <<Send(msg.from, node_id,
                         Promise(st.latest_accepted_proposal, msg.proposal_id))>>]
    ELSE [st |-> st, out |-> <<>>]

\* Mutant of Acceptor_record_acceptance: the promise is not raised.
Acceptor_record_acceptance_no_promise(st, proposal_id, value) ==
    [st EXCEPT !.latest_accepted_proposal = Some(Proposal(proposal_id, value))]

\* The state an Acceptor records when it accepts (proposal_id, value).
Acceptor_record_acceptance(st, proposal_id, value) ==
    [st EXCEPT !.latest_promise = Some(proposal_id),
               !.latest_accepted_proposal = Some(Proposal(proposal_id, value))]

\* The notification an Acceptor broadcasts to the learners when it accepts.
Acceptor_notification(proposal_id, value) == Learn(proposal_id, value)

\* The AcceptProposal arm of Acceptor::on_message.
Acceptor_on_accept(st, node_id, msg, order) ==
    IF ~can_accept(st.latest_promise, msg.proposal_id)
    THEN [st |-> st, out |-> <<>>]
    ELSE [st |-> Acceptor_record_acceptance(st, msg.proposal_id, msg.value),
          out |-> learners_broadcast(order, node_id,
                      Acceptor_notification(msg.proposal_id, msg.value))]

\* Acceptor::on_message: [st |-> state after, out |-> actions returned].
Acceptor_on_message(st, node_id, from, msg, order) ==
    CASE msg.type = "Prepare" -> Acceptor_on_prepare(st, node_id, msg)
      [] msg.type = "AcceptProposal" -> Acceptor_on_accept(st, node_id, msg, order)
      [] OTHER -> [st |-> st, out |-> <<>>]

\* Acceptor::on_timeout
Acceptor_on_timeout(st, id) == [st |-> st, out |-> <<>>]

\* ============================================================== Learner
\* Learner::new
Learner_new == [acks |-> <<>>, chosen |-> <<>>]

\* HashMap::retain(|k, _| k != key)
MapRemove(m, key) == [k \in DOMAIN m \ {key} |-> m[k]]
\* HashMap::insert(key, val)
MapInsert(m, key, val) == [k \in DOMAIN m \cup {key} |-> IF k = key THEN val ELSE m[k]]

\* Mutant of record_ack: an acknowledgment is counted even when its sender is
\* already in the entry.
record_ack_no_dedupe(st, from, pid, v) ==
    LET entry == IF pid \in DOMAIN st.acks THEN st.acks[pid] ELSE {}
    IN  IF Cardinality(entry) + 1 >= quorum
        THEN [st |-> [acks |-> MapRemove(st.acks, pid),
                      chosen |-> MapInsert(st.chosen, pid, v)],
              ret |-> Some(v)]
        ELSE [st |-> [st EXCEPT !.acks = MapInsert(st.acks, pid, entry \cup {from})],
              ret |-> None]

\* Mutant of record_ack: the entry of a pid that becomes chosen is not removed
\* from acks.
record_ack_no_gc(st, from, pid, v) ==
    LET entry == IF pid \in DOMAIN st.acks THEN st.acks[pid] ELSE {}
        inserted == entry \cup {from}
    IN  IF from \in entry
        THEN [st |-> st, ret |-> None]
        ELSE IF Cardinality(inserted) >= quorum
             THEN [st |-> [acks |-> MapInsert(st.acks, pid, inserted),
                           chosen |-> MapInsert(st.chosen, pid, v)],
                   ret |-> Some(v)]
             ELSE [st |-> [st EXCEPT !.acks = MapInsert(st.acks, pid, inserted)],
                   ret |-> None]

\* Learner::record_accepted after its chosen.contains_key guard (learner.rs:34-46).
record_ack(st, from, pid, v) ==
    LET entry == IF pid \in DOMAIN st.acks THEN st.acks[pid] ELSE {}
        inserted == entry \cup {from}
    IN  IF from \in entry
        THEN [st |-> st, ret |-> None]
        ELSE IF Cardinality(inserted) >= quorum
             THEN [st |-> [acks |-> MapRemove(st.acks, pid),
                           chosen |-> MapInsert(st.chosen, pid, v)],
                   ret |-> Some(v)]
             ELSE [st |-> [st EXCEPT !.acks = MapInsert(st.acks, pid, inserted)],
                   ret |-> None]

\* Mutant of record_accepted: acks for a pid already chosen are still counted.
record_accepted_no_chosen_guard(st, from, pid, v) == record_ack(st, from, pid, v)

\* Learner::record_accepted: [st |-> state after, ret |-> Some(v) / None].
record_accepted(st, from, pid, v) ==
    IF pid \in DOMAIN st.chosen
    THEN [st |-> st, ret |-> None]
    ELSE record_ack(st, from, pid, v)

\* Learner::on_message: [st |-> state after, out |-> actions returned].
Learner_on_message(st, from, msg) ==
    IF msg.type = "Accepted"
    THEN LET r == record_accepted(st, from, msg.proposal.id, msg.proposal.value)
         IN  [st |-> r.st,
              out |-> IF r.ret = None THEN <<>>
                      ELSE <<ChoseValue(CHOOSE v \in r.ret : TRUE)>>]
    ELSE [st |-> st, out |-> <<>>]

\* Learner::on_timeout
Learner_on_timeout(st, id) == [st |-> st, out |-> <<>>]

\* ============================================================= Proposer
Idle == [tag |-> "Idle"]
\* ProposerPhase1State::new
ProposerPhase1State_new(proposal_id) ==
    [tag |-> "Phase1", proposal |-> proposal_id,
     node_responses |-> {}, proposal_responses |-> {}]

\* Proposer::new: majority is vec![0; number_of_nodes], next_id is 0.
majority == [i \in 1 .. number_of_nodes |-> 0]
Proposer_new(node_id) ==
    [next_id |-> 0, phase |-> Idle, timer_id |-> <<0, node_id>>,
     timer_duration_ms |-> timer_initial_duration_ms]
\* The candidate value each node's Proposer is constructed with.
proposed_value(node_id) == IF node_id = 0 THEN "x" ELSE "y"

\* HashSet<Proposal>::insert, Proposal's Eq and Hash being on the id alone:
\* an element with the same id is kept and the new one dropped.
HashSetInsert(S, p) == IF \E q \in S : q.id = p.id THEN S ELSE S \cup {p}
\* Iterator::max under Proposal's Ord (by id); ids in S are distinct.
MaxProposal(S) == CHOOSE p \in S : \A q \in S : q.id <= p.id

\* Mutant of response_matches: a Promise of any round is counted.
response_matches_any(p1, prepare_id) == TRUE

\* The round guard at the head of add_response (prepare_id against proposal).
response_matches(p1, prepare_id) == prepare_id = p1.proposal

\* ProposerPhase1State::add_response: [p1 |-> state after, ret |-> actions].
add_response(p1, node_id, proposal_accepted, prepare_id) ==
    IF ~response_matches(p1, prepare_id)
    THEN [p1 |-> p1, ret |-> <<>>]
    ELSE LET responses == IF proposal_accepted = None
                          THEN p1.proposal_responses
                          ELSE HashSetInsert(p1.proposal_responses,
                                             CHOOSE p \in proposal_accepted : TRUE)
             nodes == p1.node_responses \cup {node_id}
             after == [p1 EXCEPT !.proposal_responses = responses,
                                 !.node_responses = nodes]
         IN  [p1 |-> after,
              ret |-> IF Cardinality(nodes) >= (number_of_nodes \div 2) + 1
                         /\ responses # {}
                      THEN <<ProposeValue(MaxProposal(responses).value)>>
                      ELSE <<>>]

\* ProposerPhase2State::new.  No code constructs it: Phase::Phase2 is never entered.
ProposerPhase2State_new(proposal) ==
    [tag |-> "Phase2", proposal |-> proposal, accepted_nodes |-> {}]

\* ProposerPhase2State::add_accepted: [p2 |-> state after, ret |-> actions].
\* No handler calls it: Proposer::on_message has no arm for Accepted.
add_accepted(p2, node_id, referring_proposal) ==
    IF node_id \in p2.accepted_nodes \/ referring_proposal # p2.proposal.id
    THEN [p2 |-> p2, ret |-> <<>>]
    ELSE LET nodes == p2.accepted_nodes \cup {node_id}
         IN  [p2 |-> [p2 EXCEPT !.accepted_nodes = nodes],
              ret |-> IF Cardinality(nodes) >= (number_of_nodes \div 2) + 1
                      THEN <<ChoseValue(p2.proposal.value)>>
                      ELSE <<>>]

\* Proposer::next_proposal_id: [n |-> id returned, st |-> state after].
next_proposal_id(st) ==
    [n |-> st.next_id,
     st |-> [st EXCEPT !.next_id = saturating_add(st.next_id, 1)]]

\* Proposer::next_timer_id: [tid |-> id returned, st |-> state after].
next_timer_id(st, node_id) ==
    [tid |-> <<node_id, node_id>>,
     st |-> [st EXCEPT !.timer_id = <<st.next_id, node_id>>]]

\* Proposer::queue_to_majority.  The Send it builds names no `from` (proposer.rs:164);
\* the driver knows the sender, which the envelope records.
queue_to_majority(node_id, n) ==
    [i \in 1 .. Len(majority) |-> Send(majority[i], node_id, Prepare(n, node_id))]

\* Proposer::on_phase1_start: [st |-> state after, out |-> actions returned].
on_phase1_start(st, node_id) ==
    LET np == next_proposal_id(st)
        s1 == [np.st EXCEPT !.phase = ProposerPhase1State_new(np.n)]
        nt == next_timer_id(s1, node_id)
        s2 == [nt.st EXCEPT !.timer_id = nt.tid]
    IN  [st |-> s2,
         out |-> queue_to_majority(node_id, np.n)
                   \o <<SetTimer(nt.tid, s2.timer_duration_ms)>>]

\* Proposer::on_init
Proposer_on_init(st, node_id) == on_phase1_start(st, node_id)

\* Proposer::on_message: the value add_response returns is dropped and the
\* handler returns no action; `ret` keeps what add_response returned.
Proposer_on_message(st, node_id, from, msg) ==
    IF st.phase.tag = "Phase1" /\ msg.type = "Promise"
    THEN LET r == add_response(st.phase, from, msg.accepted_proposal,
                               msg.proposal_response)
         IN  [st |-> [st EXCEPT !.phase = r.p1], out |-> <<>>, ret |-> r.ret]
    ELSE [st |-> st, out |-> <<>>, ret |-> <<>>]

\* Mutant of Proposer_on_timeout: the id is not compared with timer_id.
Proposer_on_timeout_any_id(st, node_id, id) ==
    IF st.phase.tag \in {"Phase1", "Phase2"}
    THEN on_phase1_start(
             [st EXCEPT !.timer_duration_ms = saturating_mul(@, 2)], node_id)
    ELSE [st |-> st, out |-> <<>>]

\* Proposer::on_timeout
Proposer_on_timeout(st, node_id, id) ==
    IF st.timer_id # id
    THEN [st |-> st, out |-> <<>>]
    ELSE IF st.phase.tag \in {"Phase1", "Phase2"}
         THEN on_phase1_start(
                  [st EXCEPT !.timer_duration_ms = saturating_mul(@, 2)], node_id)
         ELSE [st |-> st, out |-> <<>>]

\* ================================================================ state
VARIABLES
    proposer,   \* [Nodes -> Proposer state]
    acceptor,   \* [Nodes -> Acceptor state]
    learner,    \* [Nodes -> Learner state]
    net,        \* Spec: messages in flight, envelope -> number of copies
    timers,     \* Spec: <<node, TimerId>> of every SetTimer the driver was given
    self,       \* SpecProposer/SpecAcceptor/SpecLearner: the node of the role driven
    last,       \* the handler call of the last step
    out,        \* the actions that call returned
    ret,        \* what add_response returned inside that call (Proposer)
    used,       \* history: [Nodes -> ProposalIds of the rounds the Proposer started]
    sent,       \* history: every envelope a role handed to the driver
    heard,      \* history: <<node, from, pid, v>> of every Accepted given to a Learner
    emitted,    \* history: [Nodes -> sequence of <<pid, v>>, one for every
                \*   ChoseValue{v} the Learner returned, pid that of the Accepted]
    matched,    \* history: [Nodes -> senders of the Promises given to the Proposer in
                \*   its current round that carried the round's ProposalId]
    started,    \* history: the nodes whose Proposer ran on_init
    expired,    \* Spec: the number of timer expiries the driver delivered
    earlier     \* history: [Nodes -> TimerIds of the SetTimer of every round the
                \*   Proposer started before its current one]

vars == <<proposer, acceptor, learner, net, timers, self, last, out, ret,
          used, sent, heard, emitted, matched, started, expired, earlier>>
roles == <<proposer, acceptor, learner>>
history == <<used, sent, heard, emitted, matched, started, expired, earlier>>

NoCall == [call |-> "none"]
InitCall(role, node) == [call |-> "on_init", role |-> role, node |-> node]
MessageCall(role, node, from, msg) ==
    [call |-> "on_message", role |-> role, node |-> node, from |-> from, msg |-> msg]
TimeoutCall(role, node, id) ==
    [call |-> "on_timeout", role |-> role, node |-> node, id |-> id]

\* ------------------------------------------------------- driver helpers
Envelope(a) == [to |-> a.to, from |-> a.from, msg |-> a.msg]
\* The envelopes of the Send actions of a returned action list, in order.
SendsOf(actions) ==
    LET idx == {i \in DOMAIN actions : actions[i].act = "Send"}
    IN  [e \in {Envelope(actions[i]) : i \in idx} |->
            Cardinality({i \in idx : Envelope(actions[i]) = e})]
TimersOf(node, actions) ==
    {<<node, actions[i].id>> : i \in {j \in DOMAIN actions : actions[j].act = "SetTimer"}}
ChosenOf(actions) ==
    SelectSeq(actions, LAMBDA a : a.act = "ChoseValue")

\* Bags of envelopes: envelope -> number of copies in flight.
Copies(b, e) == IF e \in DOMAIN b THEN b[e] ELSE 0
BagUnion(a, b) ==
    [e \in DOMAIN a \cup DOMAIN b |-> Copies(a, e) + Copies(b, e)]
BagRemove(b, e) ==
    IF b[e] = 1 THEN [x \in DOMAIN b \ {e} |-> b[x]] ELSE [b EXCEPT ![e] = @ - 1]

\* ----------------------------------------------------------------- Init
InitRoles ==
    /\ proposer = [n \in Nodes |-> Proposer_new(n)]
    /\ acceptor = [n \in Nodes |-> Acceptor_new]
    /\ learner = [n \in Nodes |-> Learner_new]
    /\ net = <<>>
    /\ timers = {}
    /\ last = NoCall
    /\ out = <<>>
    /\ ret = <<>>
    /\ used = [n \in Nodes |-> {}]
    /\ sent = {}
    /\ heard = {}
    /\ emitted = [n \in Nodes |-> <<>>]
    /\ matched = [n \in Nodes |-> {}]
    /\ started = {}
    /\ expired = 0
    /\ earlier = [n \in Nodes |-> {}]

\* The composed system: no role is singled out.
Init == InitRoles /\ self = 0
\* One role instance, on any node.
InitOne == InitRoles /\ self \in Nodes
\* One Learner: a Learner stores its node_id and never reads it.
InitLearner == InitRoles /\ self = 0

\* <<pid, v>> for every ChoseValue{v} of the action list a Learner returned for
\* `msg`, in order; pid is the ProposalId of the Accepted it was given.
EmittedFor(msg, actions) ==
    LET c == ChosenOf(actions)
    IN  [i \in DOMAIN c |->
            <<IF msg.type = "Accepted" THEN msg.proposal.id ELSE -1, c[i].v>>]
\* matched[p], after the Proposer of p (in state st) was given `msg` from `from`.
Match(st, p, from, msg) ==
    IF /\ st.phase.tag = "Phase1"
       /\ msg.type = "Promise"
       /\ msg.proposal_response = st.phase.proposal
    THEN matched[p] \cup {from}
    ELSE matched[p]
\* heard, after `msg` from `from` was given to the Learner of `node`.
Hear(node, from, msg) ==
    IF msg.type = "Accepted"
    THEN heard \cup {<<node, from, msg.proposal.id, msg.proposal.value>>}
    ELSE heard

\* earlier[p], after a handler of the Proposer of p (in state st) returned
\* `actions`: a round start (the only handler that returns anything) closes the
\* round before it, whose timer was st.timer_id, if there was one.
Earlier(st, p, actions) ==
    IF actions # <<>> /\ st.phase.tag # "Idle"
    THEN earlier[p] \cup {st.timer_id}
    ELSE earlier[p]

\* ------------------------------------------- one role, any handler call
\* Proposer::on_init on node p.
ProposerInit(p) ==
    LET r == Proposer_on_init(proposer[p], p)
    IN  /\ proposer' = [proposer EXCEPT ![p] = r.st]
        /\ used' = [used EXCEPT ![p] = @ \cup {r.st.phase.proposal}]
        /\ matched' = [matched EXCEPT ![p] = {}]
        /\ earlier' = [earlier EXCEPT ![p] = Earlier(proposer[p], p, r.out)]
        /\ last' = InitCall("proposer", p)
        /\ out' = r.out
        /\ ret' = <<>>
        /\ UNCHANGED <<acceptor, learner, net, timers, self,
                       sent, heard, emitted, started, expired>>

\* Proposer::on_message(from, msg) on node p.
ProposerMessage(p, from, msg) ==
    LET r == Proposer_on_message(proposer[p], p, from, msg)
    IN  /\ proposer' = [proposer EXCEPT ![p] = r.st]
        /\ matched' = [matched EXCEPT ![p] = Match(proposer[p], p, from, msg)]
        /\ last' = MessageCall("proposer", p, from, msg)
        /\ out' = r.out
        /\ ret' = r.ret
        /\ UNCHANGED <<acceptor, learner, net, timers, self,
                       used, sent, heard, emitted, started, expired, earlier>>

\* Proposer::on_timeout(id) on node p.
ProposerTimeout(p, id) ==
    LET r == Proposer_on_timeout(proposer[p], p, id)
    IN  /\ proposer' = [proposer EXCEPT ![p] = r.st]
        /\ used' = [used EXCEPT ![p] =
                      IF r.out = <<>> THEN @ ELSE @ \cup {r.st.phase.proposal}]
        /\ matched' = [matched EXCEPT ![p] = IF r.out = <<>> THEN @ ELSE {}]
        /\ earlier' = [earlier EXCEPT ![p] = Earlier(proposer[p], p, r.out)]
        /\ last' = TimeoutCall("proposer", p, id)
        /\ out' = r.out
        /\ ret' = <<>>
        /\ UNCHANGED <<acceptor, learner, net, timers, self,
                       sent, heard, emitted, started, expired>>

\* Acceptor::on_init on node a.
AcceptorInit(a) ==
    /\ last' = InitCall("acceptor", a)
    /\ out' = <<>>
    /\ ret' = <<>>
    /\ UNCHANGED <<roles, net, timers, self, history>>

\* Acceptor::on_message(from, msg) on node a; `order` is the order in which
\* the learners set is iterated.
AcceptorMessage(a, from, msg, order) ==
    LET r == Acceptor_on_message(acceptor[a], a, from, msg, order)
    IN  /\ acceptor' = [acceptor EXCEPT ![a] = r.st]
        /\ last' = MessageCall("acceptor", a, from, msg)
        /\ out' = r.out
        /\ ret' = <<>>
        /\ UNCHANGED <<proposer, learner, net, timers, self, history>>

\* Acceptor::on_timeout(id) on node a.
AcceptorTimeout(a, id) ==
    LET r == Acceptor_on_timeout(acceptor[a], id)
    IN  /\ acceptor' = [acceptor EXCEPT ![a] = r.st]
        /\ last' = TimeoutCall("acceptor", a, id)
        /\ out' = r.out
        /\ ret' = <<>>
        /\ UNCHANGED <<proposer, learner, net, timers, self, history>>

\* Learner::on_init on node l.
LearnerInit(l) ==
    /\ last' = InitCall("learner", l)
    /\ out' = <<>>
    /\ ret' = <<>>
    /\ UNCHANGED <<roles, net, timers, self, history>>

\* Learner::on_message(from, msg) on node l.
LearnerMessage(l, from, msg) ==
    LET r == Learner_on_message(learner[l], from, msg)
    IN  /\ learner' = [learner EXCEPT ![l] = r.st]
        /\ heard' = Hear(l, from, msg)
        /\ emitted' = [emitted EXCEPT ![l] = @ \o EmittedFor(msg, r.out)]
        /\ last' = MessageCall("learner", l, from, msg)
        /\ out' = r.out
        /\ ret' = <<>>
        /\ UNCHANGED <<proposer, acceptor, net, timers, self,
                       used, sent, matched, started, expired, earlier>>

\* Learner::on_timeout(id) on node l.
LearnerTimeout(l, id) ==
    LET r == Learner_on_timeout(learner[l], id)
    IN  /\ learner' = [learner EXCEPT ![l] = r.st]
        /\ last' = TimeoutCall("learner", l, id)
        /\ out' = r.out
        /\ ret' = <<>>
        /\ UNCHANGED <<proposer, acceptor, net, timers, self, history>>

\* One message of every variant, for the handlers that ignore the variant
\* whatever it carries.
OneOfEach ==
    {Prepare(0, 0), Promise(None, 0), AcceptProposal(0, "x"),
     Accepted(Proposal(0, "x")), Learn(0, "x")}
\* The messages given to the Proposer in SpecProposer.
ProposerMessages ==
    {m \in Messages :
        /\ m.type = "Promise"
        /\ \A a \in m.accepted_proposal : a.id <= MaxAcceptedId}
      \cup OneOfEach
\* The messages given to the Acceptor in SpecAcceptor.
AcceptorMessages ==
    {m \in Messages : m.type \in {"Prepare", "AcceptProposal"}} \cup OneOfEach
\* The messages given to the Learner in SpecLearner.
LearnerMessages ==
    {m \in Messages : m.type = "Accepted" /\ m.proposal.id <= MaxLearnerPid}
      \cup OneOfEach

NextProposer ==
    \/ ProposerInit(self)
    \/ \E from \in Nodes, msg \in ProposerMessages : ProposerMessage(self, from, msg)
    \/ \E id \in TimerIds(self) : ProposerTimeout(self, id)

NextAcceptor ==
    \/ AcceptorInit(self)
    \/ \E from \in Nodes, msg \in AcceptorMessages :
           \E order \in IterationOrders(learners, msg) :
               AcceptorMessage(self, from, msg, order)
    \/ \E id \in TimerIds(self) : AcceptorTimeout(self, id)

NextLearner ==
    \/ LearnerInit(self)
    \/ \E from \in Nodes, msg \in LearnerMessages : LearnerMessage(self, from, msg)
    \/ \E id \in TimerIds(self) : LearnerTimeout(self, id)

SpecProposer == InitOne /\ [][NextProposer]_vars
SpecAcceptor == InitOne /\ [][NextAcceptor]_vars
SpecLearner == InitLearner /\ [][NextLearner]_vars

\* One node hosting the three roles, each role fed handler calls on its own:
\* one message of every variant from any sender, and any timer id.
NextRoles ==
    \/ ProposerInit(self)
    \/ AcceptorInit(self)
    \/ LearnerInit(self)
    \/ \E from \in Nodes, msg \in OneOfEach : ProposerMessage(self, from, msg)
    \/ \E from \in Nodes, msg \in OneOfEach :
           \E order \in IterationOrders(learners, msg) :
               AcceptorMessage(self, from, msg, order)
    \/ \E from \in Nodes, msg \in OneOfEach : LearnerMessage(self, from, msg)
    \/ \E id \in TimerIds(self) : ProposerTimeout(self, id)
    \/ \E id \in TimerIds(self) : AcceptorTimeout(self, id)
    \/ \E id \in TimerIds(self) : LearnerTimeout(self, id)

SpecRoles == InitOne /\ [][NextRoles]_vars

\* ------------------------------------------------- the composed system
\* The driver starts the Proposer of node p: Proposer::on_init, once per node,
\* on at most MaxProposers nodes.
Start(p) ==
    /\ p \notin started
    /\ Cardinality(started) < MaxProposers
    /\ LET r == Proposer_on_init(proposer[p], p)
       IN  /\ proposer' = [proposer EXCEPT ![p] = r.st]
           /\ used' = [used EXCEPT ![p] = @ \cup {r.st.phase.proposal}]
           /\ matched' = [matched EXCEPT ![p] = {}]
           /\ earlier' = [earlier EXCEPT ![p] = Earlier(proposer[p], p, r.out)]
           /\ net' = BagUnion(net, SendsOf(r.out))
           /\ sent' = sent \cup DOMAIN SendsOf(r.out)
           /\ timers' = timers \cup TimersOf(p, r.out)
           /\ last' = InitCall("proposer", p)
           /\ out' = r.out
           /\ ret' = <<>>
    /\ started' = started \cup {p}
    /\ UNCHANGED <<acceptor, learner, self, heard, emitted, expired>>

\* The driver delivers one copy of the envelope e to node e.to, which hosts the
\* three roles: every role handles the message, and the driver takes the actions
\* of the Proposer, then the Acceptor's, then the Learner's.
Deliver(e) ==
    /\ e \in DOMAIN net
    /\ \E order \in IterationOrders(learners, e.msg) :
         LET n == e.to
             P == Proposer_on_message(proposer[n], n, e.from, e.msg)
             A == Acceptor_on_message(acceptor[n], n, e.from, e.msg, order)
             L == Learner_on_message(learner[n], e.from, e.msg)
             actions == P.out \o A.out \o L.out
             rest == BagRemove(net, e)
         IN  /\ proposer' = [proposer EXCEPT ![n] = P.st]
             /\ acceptor' = [acceptor EXCEPT ![n] = A.st]
             /\ learner' = [learner EXCEPT ![n] = L.st]
             /\ net' = BagUnion(rest, SendsOf(actions))
             /\ sent' = sent \cup DOMAIN SendsOf(actions)
             /\ timers' = timers \cup TimersOf(n, actions)
             /\ heard' = Hear(n, e.from, e.msg)
             /\ matched' = [matched EXCEPT ![n] = Match(proposer[n], n, e.from, e.msg)]
             /\ emitted' = [emitted EXCEPT ![n] = @ \o EmittedFor(e.msg, L.out)]
             /\ last' = MessageCall("node", n, e.from, e.msg)
             /\ out' = actions
             /\ ret' = P.ret
    /\ UNCHANGED <<self, used, started, expired, earlier>>

\* A timer the driver was asked for expires on node p, at any time (at most
\* MaxTimeouts times in a run): every role of the node handles Timeout{id}; the
\* Acceptor and the Learner return nothing.
Timeout(p, id) ==
    /\ expired < MaxTimeouts
    /\ <<p, id>> \in timers
    /\ LET r == Proposer_on_timeout(proposer[p], p, id)
           A == Acceptor_on_timeout(acceptor[p], id)
           L == Learner_on_timeout(learner[p], id)
           actions == r.out \o A.out \o L.out
       IN  /\ proposer' = [proposer EXCEPT ![p] = r.st]
           /\ acceptor' = [acceptor EXCEPT ![p] = A.st]
           /\ learner' = [learner EXCEPT ![p] = L.st]
           /\ used' = [used EXCEPT ![p] =
                         IF r.out = <<>> THEN @ ELSE @ \cup {r.st.phase.proposal}]
           /\ matched' = [matched EXCEPT ![p] = IF r.out = <<>> THEN @ ELSE {}]
           /\ earlier' = [earlier EXCEPT ![p] = Earlier(proposer[p], p, r.out)]
           /\ net' = BagUnion(net, SendsOf(actions))
           /\ sent' = sent \cup DOMAIN SendsOf(actions)
           /\ timers' = timers \cup TimersOf(p, actions)
           /\ last' = TimeoutCall("node", p, id)
           /\ out' = actions
           /\ ret' = <<>>
    /\ expired' = expired + 1
    /\ UNCHANGED <<self, heard, emitted, started>>

Next ==
    \/ \E p \in Nodes : Start(p)
    \/ \E e \in DOMAIN net : Deliver(e)
    \/ \E p \in Nodes : \E id \in TimerIds(p) : Timeout(p, id)

Spec == Init /\ [][Next]_vars

\* =============================================================== claims
IsMessageCall(role, type) ==
    /\ last.call = "on_message"
    /\ last.role = role
    /\ last.msg.type = type

\* C5 (Acceptor monotonicity): in every step of every Acceptor, latest_promise
\* does not go from Some back to None, and its value after the step is greater
\* than or equal to its value before the step.
C5_PromiseNeverDecreases ==
    [][\A a \in Nodes :
          \A m \in acceptor[a].latest_promise :
              /\ acceptor'[a].latest_promise # None
              /\ \A n \in acceptor'[a].latest_promise : n >= m]_vars

\* C5 witness: the Acceptor was just given a Prepare below its latest_promise.
C5_Witness ==
    /\ IsMessageCall("acceptor", "Prepare")
    /\ \E m \in acceptor[self].latest_promise : last.msg.proposal_id < m

\* C6 (Acceptor consistency): whenever latest_accepted is Some((n, v)),
\* latest_promise is Some(m) with m >= n.
C6_AcceptedBelowPromise ==
    \A a \in Nodes :
        \A p \in acceptor[a].latest_accepted_proposal :
            /\ acceptor[a].latest_promise # None
            /\ \A m \in acceptor[a].latest_promise : m >= p.id

\* C6 witness: an Acceptor that accepted n was then given a higher Prepare, and
\* holds an accepted proposal strictly below its promise.
C6_Witness ==
    /\ IsMessageCall("acceptor", "Prepare")
    /\ \E p \in acceptor[self].latest_accepted_proposal :
           \E m \in acceptor[self].latest_promise : m > p.id

\* The senders whose Accepted{(pid, v)} the Learner of node l was given.
Ackers(l, pid, v) == {f \in Nodes : <<l, f, pid, v>> \in heard}
\* The Learner of node l returned ChoseValue{v} for pid.
Emitted(l, pid, v) == \E i \in DOMAIN emitted[l] : emitted[l][i] = <<pid, v>>

\* C7 (Quorum trigger): a Learner emits ChoseValue{v} for pid if and only if it
\* was given acknowledgments from at least quorum distinct senders that all
\* carry the same pair (pid, v); acknowledgments for one pid with different
\* values are not counted together.
C7_QuorumTrigger ==
    \A l \in Nodes, pid \in ProposalIds, v \in Values :
        Emitted(l, pid, v) <=> Cardinality(Ackers(l, pid, v)) >= quorum

\* C8 (Learner idempotence): once chosen[pid] = v, no step changes or removes
\* that entry, and no further ChoseValue is emitted for that pid.
C8_ChosenIsFinal ==
    [][\A l \in Nodes :
          \A pid \in DOMAIN learner[l].chosen :
              /\ pid \in DOMAIN learner'[l].chosen
              /\ learner'[l].chosen[pid] = learner[l].chosen[pid]
              /\ \A i \in DOMAIN emitted'[l] :
                     i > Len(emitted[l]) => emitted'[l][i][1] # pid]_vars

\* C8 witness: the Learner was just given an Accepted for a pid it had already
\* chosen (the call returned nothing), carrying another value than the chosen one.
C8_Witness ==
    /\ IsMessageCall("learner", "Accepted")
    /\ out = <<>>
    /\ last.msg.proposal.id \in DOMAIN learner[self].chosen
    /\ learner[self].chosen[last.msg.proposal.id] # last.msg.proposal.value

\* The step gave the Proposer of node p a Promise.
PromiseStep(p) ==
    /\ last'.call = "on_message"
    /\ last'.role = "proposer"
    /\ last'.node = p
    /\ last'.msg.type = "Promise"

\* The step gave the Proposer of node p the Promise that makes the senders of
\* the current round's Promises reach quorum.
QuorumCrossing(p) ==
    /\ PromiseStep(p)
    /\ proposer[p].phase.tag = "Phase1"
    /\ last'.msg.proposal_response = proposer[p].phase.proposal
    /\ Cardinality(matched[p]) < quorum
    /\ Cardinality(matched'[p]) >= quorum

\* The value Phase 2 must carry: that of the highest-ProposalId accepted proposal
\* recorded from the round's Promises, or the candidate when there is none.
Phase2Value(p, st) ==
    IF st.phase.proposal_responses = {}
    THEN proposed_value(p)
    ELSE MaxProposal(st.phase.proposal_responses).value

\* `actions` is one Send of `msg` from p to every node, and nothing else.
IsBroadcast(actions, p, msg) ==
    \E order \in Orderings(Nodes) :
        actions = [i \in 1 .. Len(order) |-> Send(order[i], p, msg)]

\* C3 (Value-preservation): the handler of the Promise that makes
\* |promises_from| reach quorum returns a broadcast of AcceptProposal{pid, v} to
\* every peer, v being the value of the highest accepted proposal reported in the
\* round's Promises, or the candidate value when every Promise carried None.
C3_QuorumBroadcastsAccept ==
    [][\A p \in Nodes :
          QuorumCrossing(p) =>
              IsBroadcast(out', p,
                  AcceptProposal(proposer[p].phase.proposal,
                                 Phase2Value(p, proposer'[p])))]_vars

\* An action list that takes the Proposer to Phase 2.
EntersPhase2(actions) ==
    \E i \in DOMAIN actions :
        \/ actions[i].act = "ProposeValue"
        \/ actions[i].act = "Send" /\ actions[i].msg.type = "AcceptProposal"

\* C4 (Round matching): Phase 2 (AcceptProposal / ProposeValue, from the
\* handler or from add_response) is entered only with Promises from at least
\* quorum distinct senders that all carried the current round's pid, and these
\* are the only Promises counted; a Promise that carries another round's pid, or
\* arrives while Idle, produces no action and changes no Proposer state.
C4_RoundMatching ==
    [][\A p \in Nodes :
          /\ ( /\ last'.call = "on_message"
               /\ last'.node = p
               /\ EntersPhase2(out') \/ EntersPhase2(ret') )
             => Cardinality(matched'[p]) >= quorum
          /\ proposer'[p].phase.tag = "Phase1" =>
                 proposer'[p].phase.node_responses = matched'[p]
          /\ ( /\ PromiseStep(p)
               /\ \/ proposer[p].phase.tag = "Idle"
                  \/ last'.msg.proposal_response # proposer[p].phase.proposal )
             => /\ out' = <<>>
                /\ ret' = <<>>
                /\ proposer'[p] = proposer[p]]_vars

\* C4 witness: after a restart, with a quorum of Promises of the current round
\* counted, add_response having reported the value to propose, the Proposer was
\* just given a Promise of an earlier round.
C4_Witness ==
    /\ IsMessageCall("proposer", "Promise")
    /\ proposer[self].phase.tag = "Phase1"
    /\ last.msg.proposal_response < proposer[self].phase.proposal
    /\ Cardinality(proposer[self].phase.node_responses) >= quorum
    /\ proposer[self].phase.proposal_responses # {}
    /\ last.from \notin proposer[self].phase.node_responses

\* The step started a round of the Proposer of node p.
RoundStart(p) ==
    /\ last'.call \in {"on_init", "on_timeout"}
    /\ last'.node = p
    /\ out' # <<>>

\* C9 (Proposer PID monotonicity): every round start uses a ProposalId strictly
\* greater than every ProposalId the Proposer used in an earlier round, up to and
\* including the top of the u64 range.
C9_PidStrictlyIncreases ==
    [][\A p \in Nodes :
          RoundStart(p) => \A n \in used[p] : proposer'[p].phase.proposal > n]_vars

\* The values of the ChoseValue actions the Learner of node l returned, in order.
Decisions(l) == [i \in DOMAIN emitted[l] |-> emitted[l][i][2]]

\* C1 (Agreement): any two ChoseValue that Learners emit, on the same node or on
\* different ones, for the same ProposalId or for different ones, carry the same
\* value.  (In the composed system no Learner emits any: see C2.)
C1_Agreement ==
    \A l1, l2 \in Nodes :
        \A i \in DOMAIN emitted[l1], j \in DOMAIN emitted[l2] :
            emitted[l1][i][2] = emitted[l2][j][2]

\* A clean run of one Proposer on node p that has come to rest: only p was
\* started, no timer expired, and every message sent was delivered.
CleanRunAtRest(p) ==
    /\ started = {p}
    /\ expired = 0
    /\ net = <<>>

\* C2 (Clean run decides): three nodes hosting the three roles, one Proposer
\* with candidate value x, no loss, no timer expiry: once every message is
\* delivered, every Learner has emitted ChoseValue{x}, exactly once.
C2_CleanRunDecides ==
    \A p \in Nodes :
        CleanRunAtRest(p) =>
            \A l \in Nodes : Decisions(l) = <<proposed_value(p)>>

\* The Prepare messages handed to the driver.
PreparesSent == {e.msg : e \in {x \in sent : x.msg.type = "Prepare"}}

\* C10 (ProposalId uniqueness across proposers): two Proposers with different
\* NodeIds never issue a Prepare with the same ProposalId.
C10_ProposalIdsUnique ==
    \A m1, m2 \in PreparesSent :
        m1.from # m2.from => m1.proposal_id # m2.proposal_id

\* The step gave the Proposer of node p a Timeout (alone, or with the other
\* roles of the node).
TimeoutStep(p) ==
    /\ last'.call = "on_timeout"
    /\ last'.role \in {"proposer", "node"}
    /\ last'.node = p

\* C11 (Stale timer delivery after restart): every round start allocates a
\* TimerId different from the TimerId of every earlier round of the Proposer, and
\* a Timeout carrying the TimerId of an earlier round returns no action and
\* starts no round.
C11_StaleTimerAfterRestart ==
    [][\A p \in Nodes :
          /\ RoundStart(p) => proposer'[p].timer_id \notin earlier'[p]
          /\ (TimeoutStep(p) /\ last'.id \in earlier[p])
                => /\ out' = <<>>
                   /\ proposer'[p] = proposer[p]]_vars

\* C12 (Stale timer immunity): on_timeout(id) of a Proposer with id different
\* from its stored timer_id, and on_timeout(id) of an Acceptor or a Learner with
\* any id, returns no action and leaves the role's state as it was.
C12_StaleTimerImmunity ==
    [][\A n \in Nodes :
          (last'.call = "on_timeout" /\ last'.node = n) =>
              /\ (last'.role = "proposer" /\ last'.id # proposer[n].timer_id)
                    => /\ out' = <<>>
                       /\ proposer'[n] = proposer[n]
              /\ last'.role = "acceptor"
                    => /\ out' = <<>>
                       /\ acceptor'[n] = acceptor[n]
              /\ last'.role = "learner"
                    => /\ out' = <<>>
                       /\ learner'[n] = learner[n]]_vars

\* C12 witness: a Proposer with Promises counted in its active round was just
\* given a Timeout carrying the timer_id it was constructed with, which is no
\* longer the stored one; the Acceptor and the Learner of the node hold state.
C12_Witness ==
    /\ last.call = "on_timeout"
    /\ last.role = "proposer"
    /\ last.id = <<0, self>>
    /\ last.id # proposer[self].timer_id
    /\ proposer[self].phase.tag = "Phase1"
    /\ proposer[self].phase.node_responses # {}
    /\ acceptor[self].latest_accepted_proposal # None
    /\ learner[self].acks # <<>>

\* The step gave the Proposer of node p, in an active round, the Timeout of its
\* stored timer_id.
LiveTimeout(p) ==
    /\ TimeoutStep(p)
    /\ last'.id = proposer[p].timer_id
    /\ proposer[p].phase.tag # "Idle"

\* `actions` is one or more Sends of Prepare{pid, from = p} followed by
\* SetTimer{tid, ms} as the last action.
PreparesThenTimer(actions, p, pid, tid, ms) ==
    /\ Len(actions) >= 2
    /\ \A i \in 1 .. (Len(actions) - 1) :
           /\ actions[i].act = "Send"
           /\ actions[i].msg = Prepare(pid, p)
    /\ actions[Len(actions)] = SetTimer(tid, ms)

\* C13 (Timeout restart): a live Timeout in an active round sets timer_ms to
\* min(2 * timer_ms, u64::MAX), discards the round's collected state, installs
\* a fresh round with a ProposalId no earlier round used, and returns Prepare
\* sends followed by SetTimer carrying the doubled duration, every time.
C13_TimeoutRestart ==
    [][\A p \in Nodes :
          LiveTimeout(p) =>
              LET ms == proposer[p].timer_duration_ms
                  doubled == IF 2 * ms > U64_MAX THEN U64_MAX ELSE 2 * ms
                  pid == proposer'[p].phase.proposal
              IN  /\ proposer'[p].timer_duration_ms = doubled
                  /\ proposer'[p].phase.tag = "Phase1"
                  /\ proposer'[p].phase.node_responses = {}
                  /\ proposer'[p].phase.proposal_responses = {}
                  /\ pid \notin used[p]
                  /\ PreparesThenTimer(out', p, pid, proposer'[p].timer_id, doubled)]_vars

\* `call` gave the Proposer of node p an Accepted for the ProposalId pid.
AcceptedCall(call, p, pid) ==
    /\ call.call = "on_message"
    /\ call.role = "proposer"
    /\ call.node = p
    /\ call.msg.type = "Accepted"
    /\ call.msg.proposal.id = pid

\* C14 (Proposer decision): the handler of the Accepted that makes the senders
\* of the Accepted for the active round's ProposalId reach quorum emits
\* ChoseValue{v = proposal.value} exactly once and returns the Proposer to Idle
\* (where a later Timeout starts no round).  With quorum = 2: a Proposer still
\* in its round after an Accepted for it from one sender is given an Accepted
\* for it from another sender.
C14_ProposerDecides ==
    [][\A p \in Nodes :
          ( /\ quorum = 2
            /\ proposer[p].phase.tag # "Idle"
            /\ AcceptedCall(last, p, proposer[p].phase.proposal)
            /\ AcceptedCall(last', p, proposer[p].phase.proposal)
            /\ last'.from # last.from )
          => /\ ChosenOf(out') = <<ChoseValue(last'.msg.proposal.value)>>
             /\ proposer'[p].phase = Idle]_vars

\* The Acceptor of node a keeps its state and the call returned no action.
AcceptorIgnores(a) ==
    /\ out' = <<>>
    /\ acceptor'[a] = acceptor[a]

\* C15 (Acceptor rejection): a Prepare or AcceptProposal whose proposal_id is
\* strictly less than the Acceptor's latest_promise returns no action and leaves
\* latest_promise and latest_accepted as they were; so does any message other
\* than Prepare/AcceptProposal, and any timeout.
C15_AcceptorRejects ==
    [][\A a \in Nodes :
          (last'.role = "acceptor" /\ last'.node = a) =>
              /\ ( /\ last'.call = "on_message"
                   /\ last'.msg.type \in {"Prepare", "AcceptProposal"}
                   /\ \E m \in acceptor[a].latest_promise :
                          last'.msg.proposal_id < m )
                 => AcceptorIgnores(a)
              /\ ( /\ last'.call = "on_message"
                   /\ last'.msg.type \notin {"Prepare", "AcceptProposal"} )
                 => AcceptorIgnores(a)
              /\ last'.call = "on_timeout" => AcceptorIgnores(a)]_vars

\* C15 witness: an Acceptor that holds an accepted proposal was just given an
\* AcceptProposal below its latest_promise, and returned nothing.
C15_Witness ==
    /\ IsMessageCall("acceptor", "AcceptProposal")
    /\ \E m \in acceptor[self].latest_promise : last.msg.proposal_id < m
    /\ acceptor[self].latest_accepted_proposal # None
    /\ out = <<>>

\* C16 (Prepare reply idempotence): when the Prepare{n, from = p} an Acceptor
\* has just answered with a Promise is delivered to it again, it returns one
\* Send to p of a Promise with the same accepted_proposal and with
\* proposal_response = n, and its state stays what the first delivery left.
C16_PrepareReplyIdempotent ==
    [][\A a \in Nodes :
          ( /\ IsMessageCall("acceptor", "Prepare")
            /\ last.node = a
            /\ out # <<>>
            /\ last' = last )
          => /\ out' = out
             /\ out' = <<Send(last.msg.from, a,
                              Promise(acceptor[a].latest_accepted_proposal,
                                      last.msg.proposal_id))>>
             /\ acceptor'[a] = acceptor[a]]_vars

\* C16 witness: an Acceptor that holds an accepted proposal has answered a
\* Prepare above it with a Promise that carries the accepted proposal.  The
\* second delivery leaves every variable as it is, so this is also the state
\* after it.
C16_Witness ==
    /\ IsMessageCall("acceptor", "Prepare")
    /\ Len(out) = 1
    /\ out[1].msg.type = "Promise"
    /\ out[1].msg.accepted_proposal # None
    /\ \E q \in out[1].msg.accepted_proposal : q.id < last.msg.proposal_id
    /\ acceptor[self].latest_promise = Some(last.msg.proposal_id)

\* The step gave the Learner of node l an Accepted.
LearnerAcceptedStep(l) ==
    /\ last'.call = "on_message"
    /\ last'.role = "learner"
    /\ last'.node = l
    /\ last'.msg.type = "Accepted"

\* |acks[pid]| of a Learner state (0 when acks has no entry for pid).
AckCount(st, pid) ==
    IF pid \in DOMAIN st.acks THEN Cardinality(st.acks[pid]) ELSE 0

\* The senders whose Accepted for pid (with any value) the Learner of node l
\* was given, in the history h.
SendersFor(h, l, pid) == {f \in Nodes : \E v \in Values : <<l, f, pid, v>> \in h}

\* C17 (Duplicate Accepted): the first Accepted{(pid, v)} of a sender, for a pid
\* that is not chosen by it, increases |acks[pid]| by exactly one; delivering
\* the same Accepted{(pid, v)} from the same sender again changes no Learner
\* state and emits nothing; and a ChoseValue is emitted only when quorum
\* distinct senders have acknowledged the pid.
C17_DuplicateAccepted ==
    [][\A l \in Nodes :
          LearnerAcceptedStep(l) =>
              LET pid == last'.msg.proposal.id
                  v == last'.msg.proposal.value
                  f == last'.from
              IN  /\ ( /\ f \notin SendersFor(heard, l, pid)
                       /\ pid \notin DOMAIN learner'[l].chosen )
                     => AckCount(learner'[l], pid) = AckCount(learner[l], pid) + 1
                  /\ <<l, f, pid, v>> \in heard
                     => /\ learner'[l] = learner[l]
                        /\ out' = <<>>
                  /\ out' # <<>>
                     => Cardinality(SendersFor(heard', l, pid)) >= quorum]_vars

\* C17 witness: the Learner was just given an Accepted for a pid not chosen, from
\* the one sender counted in acks[pid], and returned nothing.  A repeated
\* delivery leaves every variable as it is, so this is also the state after it.
C17_Witness ==
    /\ IsMessageCall("learner", "Accepted")
    /\ last.msg.proposal.id \notin DOMAIN learner[self].chosen
    /\ last.msg.proposal.id \in DOMAIN learner[self].acks
    /\ learner[self].acks[last.msg.proposal.id] = {last.from}
    /\ out = <<>>

\* The recipients of the Sends of an action list.
Recipients(actions) ==
    {actions[i].to : i \in {j \in DOMAIN actions : actions[j].act = "Send"}}

\* C18 (Round-start actions): every round start returns, in order, exactly one
\* Send of Prepare{pid, from = self} to each peer acceptor (each peer once, no
\* other recipient), then exactly one SetTimer{tid, timer_ms} as the last
\* action, pid and tid being the round's ProposalId and the stored timer_id.
\* The peers are the other nodes, with or without the Proposer's own node.
C18_RoundStartActions ==
    [][\A p \in Nodes :
          RoundStart(p) =>
              LET k == Len(out')
                  pid == proposer'[p].phase.proposal
              IN  /\ k >= 2
                  /\ \A i \in 1 .. (k - 1) :
                         /\ out'[i].act = "Send"
                         /\ out'[i].msg = Prepare(pid, p)
                  /\ \A i, j \in 1 .. (k - 1) : out'[i].to = out'[j].to => i = j
                  /\ Nodes \ {p} \subseteq Recipients(out')
                  /\ Recipients(out') \subseteq Nodes
                  /\ out'[k] = SetTimer(proposer'[p].timer_id,
                                        proposer'[p].timer_duration_ms)]_vars

\* The accepted proposal with the highest ProposalId recorded in a round state
\* (None when no Promise of the round reported one).
HighestAccepted(p1) ==
    IF p1.proposal_responses = {} THEN None
    ELSE Some(MaxProposal(p1.proposal_responses))

\* The step gave the Proposer of node p a Promise for its current round from a
\* sender already counted in the round.
DuplicatePromise(p) ==
    /\ PromiseStep(p)
    /\ proposer[p].phase.tag = "Phase1"
    /\ last'.msg.proposal_response = proposer[p].phase.proposal
    /\ last'.from \in proposer[p].phase.node_responses

\* C19 (Promise deduplication): a Promise for the current round from a sender
\* already in promises_from returns no action and changes neither promises_from
\* nor the recorded highest accepted proposal, whatever accepted_proposal it
\* carries; and a recorded accepted proposal is kept when a later Promise
\* reports one with the same ProposalId.
C19_PromiseDeduplication ==
    [][\A p \in Nodes :
          /\ DuplicatePromise(p)
             => /\ out' = <<>>
                /\ proposer'[p].phase.node_responses = proposer[p].phase.node_responses
                /\ HighestAccepted(proposer'[p].phase) = HighestAccepted(proposer[p].phase)
          /\ ( /\ PromiseStep(p)
               /\ proposer[p].phase.tag = "Phase1" )
             => \A q \in proposer[p].phase.proposal_responses :
                    (\E a \in last'.msg.accepted_proposal : a.id = q.id)
                       => q \in proposer'[p].phase.proposal_responses]_vars

\* C20 (Learner bookkeeping): in every Learner state the key sets of acks and
\* chosen are disjoint, and every acks[pid] is non-empty and has fewer than
\* quorum members.
C20_LearnerBookkeeping ==
    \A l \in Nodes :
        /\ DOMAIN learner[l].acks \cap DOMAIN learner[l].chosen = {}
        /\ \A pid \in DOMAIN learner[l].acks :
               /\ learner[l].acks[pid] # {}
               /\ Cardinality(learner[l].acks[pid]) < quorum

\* C20 witness: every node has sent the Learner an Accepted for a pid it has
\* chosen (one of them after the choice, which removed the pid from acks), the
\* last call being one of these.
C20_Witness ==
    /\ IsMessageCall("learner", "Accepted")
    /\ last.msg.proposal.id \in DOMAIN learner[self].chosen
    /\ last.msg.proposal.id \notin DOMAIN learner[self].acks
    /\ SendersFor(heard, self, last.msg.proposal.id) = Nodes

====
